---- MODULE Spec2Model ----
(***************************************************************************)
(* Model of the self-healing test execution pipeline of                    *)
(* jira-test-automation: agents/agent3-test-executor/index.js              *)
(* (triggerAgent3, runPlaywrightTests, correctFailedSelectors,             *)
(* updatePageObjectSelector).                                              *)
(*                                                                         *)
(* Text is modelled as a sequence of one-character strings.                *)
(***************************************************************************)
EXTENDS Integers, Sequences, FiniteSets, TLC

VARIABLES
    pc,            \* position of the triggerAgent3 run
    testSrc,       \* the test source file of the checkout (tests/e2e/*.spec.ts)
    pageObj,       \* content of the page-object file of the checkout
    resultsFile,   \* test-results/results.json of the checkout
    initialResults,\* const initialResults (index.js:53)
    retryResults,  \* const retryResults (index.js:74)
    testResults,   \* let testResults (index.js:37), the aggregate that is reported
    corrections,   \* const corrections of correctFailedSelectors (index.js:211)
    idx,           \* position of the for-of loop of correctFailedSelectors
    attempt,       \* what the latest loop iteration of correctFailedSelectors did
    calls,         \* how often each collaborator / function was invoked in the run
    reported,      \* what the issue tracker received from this run
    patchLog,      \* the calls of updatePageObjectSelector, in order
    lastRun,       \* the latest call of runPlaywrightTests
    arg,           \* the arguments of the function under study (function specs)
    wf,            \* the run of triggerFullWorkflow (server.js): its inputs and log
    srv,           \* the server (server.js): webhook events, responses, workflow runs
    a2,            \* the run of triggerAgent2: what it did to the checkout and remote
    out            \* the value returned by the function under study (function specs)

vars == <<pc, testSrc, pageObj, resultsFile, initialResults, retryResults,
          testResults, corrections, idx, attempt, calls, reported, patchLog,
          lastRun, arg, wf, srv, a2, out>>

----------------------------------------------------------------------------
(* Bounds of the model                                                     *)

\* longest page-object file content that is enumerated
MaxContentLen == 6
\* longest locator (original or suggested) that is enumerated
MaxSelectorLen == 2
\* most test entries in one runner report
MaxTests == 2

\* the JavaScript value undefined, where a text is expected
NoValue == <<"#undefined">>
\* a value that is not a string, where a text is expected
NonString == <<"#object">>

----------------------------------------------------------------------------
(* Text helpers                                                            *)

\* all sequences over S of length lo..hi
SeqsOf(S, lo, hi) == UNION {[1..n -> S] : n \in lo..hi}

Slice(s, from, to) == [k \in 1..(to - from + 1) |-> s[from + k - 1]]

Digits == {"0", "1", "2", "3", "4", "5", "6", "7", "8", "9"}

DigitVal(d) == CASE d = "0" -> 0 [] d = "1" -> 1 [] d = "2" -> 2 [] d = "3" -> 3
                 [] d = "4" -> 4 [] d = "5" -> 5 [] d = "6" -> 6 [] d = "7" -> 7
                 [] d = "8" -> 8 [] d = "9" -> 9

----------------------------------------------------------------------------
(* updatePageObjectSelector: the regular expressions and the replacement   *)
(* A pattern is a sequence of character classes (sets of characters); all  *)
(* patterns built by the code have a fixed length.                         *)

\* the character classes of the patterns: quote, double quote, backquote and
\* an opening (closing) parenthesis
\* (the backquote character is written "bq")
BackQuote == "bq"
OpenDelims == {"'", "\"", BackQuote, "("}
CloseDelims == {"'", "\"", BackQuote, ")"}
QuoteChars == {"'", "\"", BackQuote}

\* escapeRegex: every character of str matches only itself
escapeRegex(str) == [k \in 1..Len(str) |-> {str[k]}]

\* first pattern: (open delimiter) escaped locator (close delimiter), flag g,
\* two capture groups
QuotedLiteralPattern(orig) == <<OpenDelims>> \o escapeRegex(orig) \o <<CloseDelims>>

\* second pattern: colon, space, quote, escaped locator, quote, flag g,
\* no capture group
KeyedPropertyPattern(orig) ==
    <<{":"}, {" "}, QuoteChars>> \o escapeRegex(orig) \o <<QuoteChars>>

\* number of capture groups of each pattern, in the order of selectorPatterns
PatternGroups == <<2, 0>>

selectorPatterns(orig) == <<QuotedLiteralPattern(orig), KeyedPropertyPattern(orig)>>

\* the pattern matches the text s starting at position i
MatchAt(pat, s, i) ==
    /\ i >= 1
    /\ i + Len(pat) - 1 <= Len(s)
    /\ \A k \in 1..Len(pat) : s[i + k - 1] \in pat[k]

\* pattern.test(pageContent) on a fresh regular expression (lastIndex = 0)
RegexTest(pat, s) == \E i \in 1..Len(s) : MatchAt(pat, s, i)

\* positions where String.prototype.replace with a global pattern rewrites:
\* leftmost match first, the next search starts after the previous match
RECURSIVE MatchSitesFrom(_, _, _)
MatchSitesFrom(pat, s, i) ==
    IF i > Len(s) THEN {}
    ELSE IF MatchAt(pat, s, i)
         THEN {i} \cup MatchSitesFrom(pat, s, i + Len(pat))
         ELSE MatchSitesFrom(pat, s, i + 1)

MatchSites(pat, s) == MatchSitesFrom(pat, s, 1)

\* the replacement string: $1, then suggestion.suggestedSelector, then $2
ReplacementTemplate(suggested) == <<"$", "1">> \o suggested \o <<"$", "2">>

\* GetSubstitution of String.prototype.replace: expands $$, $&, $backquote, $quote and
\* $n / $nn (for groups that exist) in the template t from position j on;
\* every other character, and a $ that starts none of these, is copied
RECURSIVE Substitute(_, _, _, _, _, _, _)
Substitute(t, j, m, caps, matched, pre, post) ==
    IF j > Len(t) THEN <<>>
    ELSE IF t[j] # "$" \/ j = Len(t)
         THEN <<t[j]>> \o Substitute(t, j + 1, m, caps, matched, pre, post)
    ELSE LET c == t[j + 1] IN
         IF c = "$" THEN <<"$">> \o Substitute(t, j + 2, m, caps, matched, pre, post)
         ELSE IF c = "&" THEN matched \o Substitute(t, j + 2, m, caps, matched, pre, post)
         ELSE IF c = BackQuote THEN pre \o Substitute(t, j + 2, m, caps, matched, pre, post)
         ELSE IF c = "'" THEN post \o Substitute(t, j + 2, m, caps, matched, pre, post)
         ELSE IF c \in Digits
              THEN LET two == IF j + 2 <= Len(t) /\ t[j + 2] \in Digits
                              THEN 10 * DigitVal(c) + DigitVal(t[j + 2]) ELSE 0
                   IN IF two >= 1 /\ two <= m
                      THEN caps[two] \o Substitute(t, j + 3, m, caps, matched, pre, post)
                      ELSE IF DigitVal(c) >= 1 /\ DigitVal(c) <= m
                           THEN caps[DigitVal(c)]
                                \o Substitute(t, j + 2, m, caps, matched, pre, post)
                           ELSE <<"$">> \o Substitute(t, j + 1, m, caps, matched, pre, post)
         ELSE <<"$">> \o Substitute(t, j + 1, m, caps, matched, pre, post)

\* the capture groups of a match of the pattern with m groups at position i:
\* group 1 is the opening delimiter, group 2 the closing one
Captures(pat, m, s, i) ==
    IF m = 2 THEN <<<<s[i]>>, <<s[i + Len(pat) - 1]>>>> ELSE <<>>

\* pageContent.replace(pattern, template) with a global pattern
RECURSIVE ReplaceFrom(_, _, _, _, _)
ReplaceFrom(pat, m, template, s, i) ==
    IF i > Len(s) THEN <<>>
    ELSE IF MatchAt(pat, s, i)
         THEN Substitute(template, 1, m, Captures(pat, m, s, i),
                         Slice(s, i, i + Len(pat) - 1),
                         Slice(s, 1, i - 1),
                         Slice(s, i + Len(pat), Len(s)))
              \o ReplaceFrom(pat, m, template, s, i + Len(pat))
         ELSE <<s[i]>> \o ReplaceFrom(pat, m, template, s, i + 1)

\* variant: a pattern without the g flag, only the first match is replaced
RegexReplace_FirstOnly(pat, m, template, s) ==
    IF MatchSites(pat, s) = {} THEN s
    ELSE LET i == CHOOSE k \in MatchSites(pat, s) : \A h \in MatchSites(pat, s) : k <= h
         IN Slice(s, 1, i - 1)
            \o Substitute(template, 1, m, Captures(pat, m, s, i),
                          Slice(s, i, i + Len(pat) - 1),
                          Slice(s, 1, i - 1),
                          Slice(s, i + Len(pat), Len(s)))
            \o Slice(s, i + Len(pat), Len(s))

RegexReplace(pat, m, template, s) == ReplaceFrom(pat, m, template, s, 1)

----------------------------------------------------------------------------
(* updatePageObjectSelector (index.js:313-354)                             *)

\* a file that cannot be read (fs.readFile rejects)
Unreadable == <<"#ENOENT">>

\* String(value) inside a template literal: undefined prints as "undefined"
ToText(v) == IF v = NoValue THEN <<"undefined">>
             ELSE IF v = NonString THEN <<"[object Object]">> ELSE v

\* variant: without a matching pattern the first pattern is applied anyway
FirstMatchingPattern_Default(orig, content) ==
    LET pats == selectorPatterns(orig)
        hits == {k \in 1..Len(pats) : RegexTest(pats[k], content)}
    IN IF hits = {} THEN 1 ELSE CHOOSE k \in hits : \A h \in hits : k <= h

\* index of the first pattern of selectorPatterns whose test succeeds, 0 if none
FirstMatchingPattern(orig, content) ==
    LET pats == selectorPatterns(orig)
        hits == {k \in 1..Len(pats) : RegexTest(pats[k], content)}
    IN IF hits = {} THEN 0 ELSE CHOOSE k \in hits : \A h \in hits : k <= h

\* src: the test source file, page: the page-object file, suggestion: the
\* parsed advisory object, writeOk: whether fs.writeFile succeeds.
\* Result: the returned boolean, the page-object file afterwards, whether
\* fs.writeFile was called, and the number of sites the replace rewrote.
updatePageObjectSelector(src, page, suggestion, writeOk) ==
    LET unchanged == [returned |-> FALSE, page |-> page, wrote |-> FALSE, sites |-> 0]
    IN IF ~src.readable THEN unchanged                     \* readFile throws, caught
       ELSE IF ~src.importsPage THEN unchanged             \* :320 return false
       ELSE IF page = Unreadable THEN unchanged            \* :327 throws, caught
       ELSE IF suggestion.originalSelector \in {NoValue, NonString}
            THEN unchanged                                 \* escapeRegex throws, caught
       ELSE LET orig == suggestion.originalSelector
                k == FirstMatchingPattern(orig, page)
            IN IF k = 0 THEN unchanged                     \* :349 return false
               ELSE LET pat == selectorPatterns(orig)[k]
                        newContent ==
                            RegexReplace(pat, PatternGroups[k],
                                ReplacementTemplate(ToText(suggestion.suggestedSelector)),
                                page)
                    IN IF writeOk
                       THEN [returned |-> TRUE, page |-> newContent, wrote |-> TRUE,
                             sites |-> Cardinality(MatchSites(pat, page))]
                       ELSE [returned |-> FALSE, page |-> page, wrote |-> TRUE,
                             sites |-> 0]                  \* writeFile throws, caught

----------------------------------------------------------------------------
(* runPlaywrightTests (index.js:149-208): the results artifact             *)
(* test-results/results.json and its parsing                                *)

\* shapes of the artifact and of the JSON values in it
Missing == [kind |-> "missing"]          \* no results.json in the checkout
Unparseable == [kind |-> "unparseable"]  \* results.json is not JSON
Null == [kind |-> "null"]                \* the JSON value null
Undefined == [kind |-> "undefined"]      \* an absent property
NotArray == [kind |-> "notArray"]        \* a JSON value without a forEach method
Array(items) == [kind |-> "array", items |-> items]
TestEntry(status, title, file, error) ==
    [kind |-> "object", status |-> status, title |-> title, file |-> file,
     error |-> error]
Suite(tests) == [kind |-> "object", tests |-> tests]
Report(suites) == [kind |-> "object", suites |-> suites]

EmptyResult == [totalTests |-> 0, passed |-> 0, failed |-> 0, failedTests |-> <<>>]

\* the body of suite.tests.forEach for one entry (index.js:182-194); acc.threw
\* is set when the body throws, which ends both forEach loops (index.js:196)
ParseTest(acc, test) ==
    IF acc.threw THEN acc
    ELSE LET counted == [acc EXCEPT !.totalTests = @ + 1]
         IN IF test.kind = "null" THEN [counted EXCEPT !.threw = TRUE] \* test.status throws
            ELSE IF test.status = "passed"
                 THEN [counted EXCEPT !.passed = @ + 1]
                 ELSE [counted EXCEPT !.failed = @ + 1,
                                      !.failedTests = Append(@,
                                          [name |-> test.title, file |-> test.file,
                                           error |-> IF test.error = NoValue
                                                     THEN <<"Unknown error">>
                                                     ELSE test.error])]

RECURSIVE ParseTests(_, _)
ParseTests(acc, tests) ==
    IF tests = <<>> THEN acc ELSE ParseTests(ParseTest(acc, Head(tests)), Tail(tests))

\* the body of results.suites.forEach for one suite (index.js:181-195)
ParseSuite(acc, suite) ==
    IF acc.threw THEN acc
    ELSE IF suite.kind = "null" THEN [acc EXCEPT !.threw = TRUE]   \* suite.tests throws
    ELSE IF suite.tests.kind = "undefined" THEN acc                \* ?. skips
    ELSE IF suite.tests.kind = "notArray" THEN [acc EXCEPT !.threw = TRUE]
    ELSE ParseTests(acc, suite.tests.items)

RECURSIVE ParseSuites(_, _)
ParseSuites(acc, suites) ==
    IF suites = <<>> THEN acc ELSE ParseSuites(ParseSuite(acc, Head(suites)), Tail(suites))

\* index.js:168-198: the result that runPlaywrightTests builds from the artifact
ParseResults(file) ==
    LET start == [totalTests |-> 0, passed |-> 0, failed |-> 0,
                  failedTests |-> <<>>, threw |-> FALSE]
        final == IF file.kind \in {"missing", "unparseable", "null"} THEN start
                 ELSE IF file.suites.kind \in {"undefined", "notArray"} THEN start
                 ELSE ParseSuites(start, file.suites.items)
    IN [totalTests |-> final.totalTests, passed |-> final.passed,
        failed |-> final.failed, failedTests |-> final.failedTests]

----------------------------------------------------------------------------
(* correctFailedSelectors (index.js:210-311): extraction and advisory      *)
(* An error message is a sequence of tokens: "locator(", "selector(", the  *)
(* quote "'", ")" and other tokens, none of which contains a quote.        *)

\* position of the first quote at or after position from, 0 if none
RECURSIVE NextQuote(_, _)
NextQuote(s, from) ==
    IF from > Len(s) THEN 0
    ELSE IF s[from] = "'" THEN from ELSE NextQuote(s, from + 1)

\* '([^']+)' at position i: the position of the closing quote, 0 if no match
QuotedAt(s, i) ==
    IF i <= Len(s) /\ s[i] = "'"
    THEN LET j == NextQuote(s, i + 1) IN IF j >= i + 2 THEN j ELSE 0
    ELSE 0

\* locator\('([^']+)'\) or selector\('([^']+)'\) at position i, for the
\* given call token: the position of the closing quote, 0 if no match
CallAt(s, i, call) ==
    IF i <= Len(s) /\ s[i] = call
    THEN LET j == QuotedAt(s, i + 1)
         IN IF j # 0 /\ j + 1 <= Len(s) /\ s[j + 1] = ")" THEN j ELSE 0
    ELSE 0

\* index.js:218-219: failedTest.error.match(...) and the first defined group;
\* the leftmost position where one of the three alternatives matches wins
RECURSIVE MatchSelectorFrom(_, _)
MatchSelectorFrom(s, i) ==
    IF i > Len(s) THEN NoValue
    ELSE IF CallAt(s, i, "locator(") # 0
         THEN Slice(s, i + 2, CallAt(s, i, "locator(") - 1)
    ELSE IF CallAt(s, i, "selector(") # 0
         THEN Slice(s, i + 2, CallAt(s, i, "selector(") - 1)
    ELSE IF QuotedAt(s, i) # 0
         THEN Slice(s, i + 1, QuotedAt(s, i) - 1)
    ELSE MatchSelectorFrom(s, i + 1)

ExtractSelector(error) == MatchSelectorFrom(error, 1)

\* the test source file named by failedTest.file: the checkout holds one test
\* source, SpecFile; every other name cannot be read
SpecFile == "tests/e2e/login.spec.ts"
NoSource == [readable |-> FALSE, importsPage |-> FALSE, gotoUrl |-> FALSE]
SourceOf(file, src) == IF file = SpecFile THEN src ELSE NoSource

\* the advisory response text is a sequence of tokens: code fences, prose,
\* and JSON values
FenceJson == [kind |-> "fenceJson"]    \* three backquotes followed by json
Fence == [kind |-> "fence"]            \* three backquotes
Prose == [kind |-> "prose"]
Json(value) == [kind |-> "json", value |-> value]
Suggestion(orig, sugg, conf) ==
    [kind |-> "object", originalSelector |-> orig, suggestedSelector |-> sugg,
     confidence |-> conf]

\* index.js:282: remove both kinds of code fence (trim removes no token)
StripFences(text) == SelectSeq(text, LAMBDA t : t.kind \notin {"fenceJson", "fence"})

\* variant: the first JSON value found in the text is taken, whatever
\* surrounds it
JsonParse_Lenient(text) ==
    LET values == SelectSeq(text, LAMBDA t : t.kind = "json")
    IN IF Len(values) >= 1 THEN values[1].value ELSE [kind |-> "syntaxError"]

\* index.js:284: JSON.parse succeeds only on exactly one JSON value
JsonParse(text) ==
    IF Len(text) = 1 /\ text[1].kind = "json" THEN text[1].value
    ELSE [kind |-> "syntaxError"]

\* variant: the iteration goes on without an extracted locator
HasSelector_Always(failedSelector) == TRUE

\* index.js:221: the iteration goes on only with an extracted locator
HasSelector(failedSelector) == failedSelector # NoValue

\* variant: the iteration goes on without page markup
HasMarkup_Always(fetched) == TRUE

\* index.js:242-243: the iteration goes on only with page markup; a failed
\* request gives null
HasMarkup(fetched) == fetched

\* variant: every labelled suggestion passes the gate
ConfidenceGate_AnyLabel(confidence) == confidence # ""

\* index.js:286: the confidence gate
ConfidenceGate(confidence) == confidence \in {"high", "medium"}

\* One iteration of the for-of loop (index.js:213-308) for failedTest, with
\* the environment's answers: fetched (axios.get gave markup), ai (the
\* advisory answer: apiError or a response text), writeOk.
\* Result: what the iteration did and the page-object file afterwards.
CorrectionAttempt(failedTest, src, page, fetched, ai, writeOk) ==
    LET none == [extracted |-> FALSE, fetchCalled |-> FALSE, aiCalled |-> FALSE,
                 parsed |-> FALSE, confidence |-> "", patchCalled |-> FALSE,
                 updated |-> FALSE, wrote |-> FALSE, sites |-> 0, page |-> page,
                 threw |-> FALSE, suggestion |-> Null, before |-> page,
                 correction |-> <<>>, fetched |-> FALSE, response |-> Null]
        source == SourceOf(failedTest.file, src)
    IN IF failedTest.error = NonString THEN [none EXCEPT !.threw = TRUE] \* .match throws
       ELSE IF ~HasSelector(ExtractSelector(failedTest.error)) THEN none \* :221 continue
       ELSE IF ~source.readable
            THEN [none EXCEPT !.extracted = TRUE, !.threw = TRUE]        \* :228 throws
       ELSE IF ~source.gotoUrl THEN [none EXCEPT !.extracted = TRUE]     \* :234 continue
       ELSE IF ~HasMarkup(fetched)
            THEN [none EXCEPT !.extracted = TRUE, !.fetchCalled = TRUE]  \* :243 continue
       ELSE LET s1 == [none EXCEPT !.extracted = TRUE, !.fetchCalled = TRUE,
                                   !.aiCalled = TRUE, !.fetched = fetched,
                                   !.response = ai]
            IN IF ai.kind = "apiError" THEN [s1 EXCEPT !.threw = TRUE]   \* :275 throws
               ELSE LET suggestion == JsonParse(StripFences(ai.text))
                    IN IF suggestion.kind = "syntaxError"
                       THEN [s1 EXCEPT !.threw = TRUE]                   \* :284 throws
                       ELSE IF suggestion.kind = "null"
                       THEN [s1 EXCEPT !.parsed = TRUE, !.threw = TRUE]  \* :286 throws
                       ELSE LET s2 == [s1 EXCEPT !.parsed = TRUE,
                                          !.suggestion = suggestion,
                                          !.confidence = suggestion.confidence]
                            IN IF ConfidenceGate(suggestion.confidence)
                               THEN LET r == updatePageObjectSelector(source, page,
                                                                      suggestion, writeOk)
                                    IN [s2 EXCEPT !.patchCalled = TRUE,
                                          !.updated = r.returned, !.wrote = r.wrote,
                                          !.sites = r.sites, !.page = r.page,
                                          !.correction =
                                             IF r.returned
                                             THEN <<[test |-> failedTest.name,
                                                     file |-> failedTest.file,
                                                     originalSelector |->
                                                        suggestion.originalSelector,
                                                     newSelector |->
                                                        suggestion.suggestedSelector]>>
                                             ELSE <<>>]
                               ELSE s2                                   \* :302 skip

----------------------------------------------------------------------------
(* The environment of one triggerAgent3 run                                *)

\* test sources the cloned repository may hold
RunSources ==
    {[readable |-> TRUE, importsPage |-> TRUE, gotoUrl |-> TRUE],
     [readable |-> TRUE, importsPage |-> FALSE, gotoUrl |-> TRUE],
     [readable |-> TRUE, importsPage |-> TRUE, gotoUrl |-> FALSE],
     NoSource}

\* page objects the cloned repository may hold
RunPages ==
    {<<"'", "a", "'">>,
     <<"(", "'", "a", "'", ")", "'", "a", "'">>,
     <<"'", "b", "'">>}

\* test entries of the runner's report
PassedTest == TestEntry("passed", "t-pass", SpecFile, NoValue)
LocatorFailure ==
    TestEntry("failed", "t-locator", SpecFile, <<"locator(", "'", "a", "'", ")">>)
TimedOutTest == TestEntry("timedOut", "t-timeout", SpecFile, NoValue)
RunTests == {PassedTest, LocatorFailure, TimedOutTest}

\* what one execution of the runner leaves in test-results/results.json
RunReports ==
    {Report(Array(<<Suite(Array(ts))>>)) : ts \in SeqsOf(RunTests, 0, MaxTests)}
        \cup {Missing, Unparseable}

\* confidence labels the advisory backend may give
RunConfidences == {"high", "medium", "low", "certain"}

\* answers of the advisory backend
RunAdvice ==
    {[kind |-> "apiError", text |-> <<>>],
     [kind |-> "text", text |-> <<Prose, Json(Suggestion(<<"a">>, <<"b">>, "high"))>>]}
    \cup {[kind |-> "text",
            text |-> <<FenceJson, Json(Suggestion(<<"a">>, <<"b">>, c)), Fence>>] :
            c \in RunConfidences}
    \cup {[kind |-> "text", text |-> <<Json(Suggestion(<<"a">>, <<"a">>, "high"))>>]}

NoCalls == [runner |-> 0, corrector |-> 0, fetch |-> 0, advisor |-> 0, patch |-> 0,
            write |-> 0, commit |-> 0, push |-> 0, pushed |-> 0, pr |-> 0]

NoAttempt == [test |-> 0, extracted |-> FALSE, fetchCalled |-> FALSE,
              aiCalled |-> FALSE, parsed |-> FALSE, confidence |-> "",
              patchCalled |-> FALSE, updated |-> FALSE, wrote |-> FALSE,
              sites |-> 0, threw |-> FALSE, fetched |-> FALSE, response |-> Null]

\* no workflow run is under study
NoWorkflow == [kind |-> "none"]
\* no server, no run of triggerAgent2 and no returned value are under study
NoServer == [kind |-> "none"]
NoAgent2 == [kind |-> "none"]
NothingElse == srv = NoServer /\ a2 = NoAgent2 /\ out = NoValue

\* the state before anything ran, apart from pc, the checkout, arg and wf
Fresh ==
    /\ initialResults = EmptyResult
    /\ retryResults = EmptyResult
    /\ testResults = [totalTests |-> 0, passed |-> 0, failed |-> 0,
                      correctedSelectors |-> <<>>, correctionPrUrl |-> FALSE]
    /\ corrections = <<>>
    /\ idx = 0
    /\ attempt = NoAttempt
    /\ calls = NoCalls
    /\ reported = <<>>
    /\ patchLog = <<>>
    /\ lastRun = [exitCode |-> 0, threw |-> FALSE, artifact |-> "missing",
                  result |-> EmptyResult]

Init ==
    /\ Fresh
    /\ pc = "start"
    /\ testSrc = NoSource
    /\ pageObj = Unreadable
    /\ resultsFile = Missing
    /\ arg = Null
    /\ wf = NoWorkflow
    /\ NothingElse

----------------------------------------------------------------------------
(* triggerAgent3 (index.js:26-122)                                         *)

\* index.js:54-56: the counts of the initial run are taken over
AfterInitialRun(tr, res) ==
    [tr EXCEPT !.totalTests = res.totalTests, !.passed = res.passed,
               !.failed = res.failed]

\* variant: correction is attempted after every initial run
ShouldCorrect_Always(tr) == TRUE

\* index.js:64: correction is attempted only after failures
ShouldCorrect(tr) == tr.failed > 0

\* variant: the rerun happens whenever correction was attempted
ShouldRerun_Always(applied) == TRUE

\* index.js:69: the rerun happens only after applied corrections
ShouldRerun(applied) == Len(applied) > 0

\* index.js:75-76: the counts taken over from the rerun
AfterRerun(tr, res) == [tr EXCEPT !.passed = res.passed, !.failed = res.failed]

\* variant: a rerun that still fails goes back to correction
NextAfterRerun_Loop(res) == IF res.failed > 0 THEN "correct" ELSE "finish"

\* index.js:77-84: after the rerun the run goes on to the publishing step
NextAfterRerun(res) == "finish"

\* variant: the publishing step runs whenever tests failed initially
ShouldPublish_OnFailure(tr) == Len(tr.correctedSelectors) > 0 \/ tr.failed > 0

\* variant: corrections are never published
ShouldPublish_Never(tr) == FALSE

\* index.js:88: corrections are published only when there are some
ShouldPublish(tr) == Len(tr.correctedSelectors) > 0

\* index.js:49, prepareTestRepo (index.js:124-147): the checkout is removed
\* and cloned afresh; a failing clone throws into the catch of triggerAgent3
PrepareTestRepo ==
    /\ pc = "start"
    /\ \/ \E src \in RunSources, page \in RunPages :
            /\ testSrc' = src
            /\ pageObj' = page
            /\ resultsFile' = Missing
            /\ pc' = "initialRun"
       \/ /\ pc' = "catch"
          /\ UNCHANGED <<testSrc, pageObj, resultsFile>>
    /\ UNCHANGED <<initialResults, retryResults, testResults, corrections, idx,
                   attempt, calls, reported, patchLog, lastRun, arg, wf, srv, a2, out>>

\* runPlaywrightTests (index.js:149-208): the runner subprocess either writes
\* a report or leaves the artifact alone, and exits with exitCode; execSync
\* throws on a non-zero exit code, which index.js:163 catches. Then the
\* artifact is parsed. threw: whether the call surfaces an error.
ArtifactAfter(artifact, written) ==
    IF written.kind = "nothing" THEN artifact ELSE written

\* variant: the failure of execSync is not caught
runPlaywrightTests_Uncaught(artifact, written, exitCode) ==
    [threw |-> exitCode # 0, result |-> ParseResults(ArtifactAfter(artifact, written))]

runPlaywrightTests(artifact, written, exitCode) ==
    [threw |-> FALSE, result |-> ParseResults(ArtifactAfter(artifact, written))]

RunnerOutputs == RunReports \cup {[kind |-> "nothing"]}
ExitCodes == {0, 1}

\* index.js:53-69: the initial run; with failures the run enters
\* correctFailedSelectors
InitialRun ==
    /\ pc = "initialRun"
    /\ \E written \in RunnerOutputs, exitCode \in ExitCodes :
         LET r == runPlaywrightTests(resultsFile, written, exitCode)
             res == r.result
         IN /\ resultsFile' = ArtifactAfter(resultsFile, written)
            /\ lastRun' = [exitCode |-> exitCode, threw |-> r.threw,
                           artifact |-> resultsFile'.kind, result |-> res]
            /\ calls' = [calls EXCEPT !.runner = @ + 1,
                            !.corrector = @ + (IF ~r.threw
                                                  /\ ShouldCorrect(AfterInitialRun(testResults, res))
                                               THEN 1 ELSE 0)]
            /\ IF r.threw
               THEN /\ pc' = "catch"
                    /\ UNCHANGED <<initialResults, testResults, idx, corrections>>
               ELSE /\ initialResults' = res
                    /\ testResults' = AfterInitialRun(testResults, res)
                    /\ IF ShouldCorrect(testResults')
                       THEN /\ pc' = "correct"
                            /\ idx' = 1
                            /\ corrections' = <<>>
                       ELSE /\ pc' = "finish"
                            /\ UNCHANGED <<idx, corrections>>
    /\ UNCHANGED <<testSrc, pageObj, retryResults, attempt, reported, patchLog, arg, wf, srv, a2, out>>

\* variant: an iteration that threw is tried again
NextIndex_RetryOnError(i, n, threw) == IF threw THEN i ELSE i + 1

\* variant: an error in one iteration ends the loop
NextIndex_AbortOnError(i, n, threw) == IF threw THEN n + 1 ELSE i + 1

\* index.js:213-214, 305-308: the try/catch is inside the for-of loop, so the
\* loop goes on to the next failed test whether or not the iteration threw
NextIndex(i, n, threw) == i + 1

\* correctFailedSelectors (index.js:210-311): one iteration of the loop, for
\* failedTests[idx]; after the last one the function returns and
\* triggerAgent3 continues at index.js:67-69
CorrectNext ==
    /\ pc = "correct"
    /\ idx <= Len(initialResults.failedTests)
    /\ \E fetched \in BOOLEAN, ai \in RunAdvice, writeOk \in BOOLEAN :
         LET failedTest == initialResults.failedTests[idx]
             r == CorrectionAttempt(failedTest, testSrc, pageObj, fetched, ai, writeOk)
             all == corrections \o r.correction
         IN /\ pageObj' = r.page
            /\ corrections' = all
            /\ attempt' = [test |-> idx, extracted |-> r.extracted,
                           fetchCalled |-> r.fetchCalled, aiCalled |-> r.aiCalled,
                           parsed |-> r.parsed, confidence |-> r.confidence,
                           patchCalled |-> r.patchCalled, updated |-> r.updated,
                           wrote |-> r.wrote, sites |-> r.sites, threw |-> r.threw,
                           fetched |-> r.fetched, response |-> r.response]
            /\ calls' = [calls EXCEPT
                           !.fetch = @ + (IF r.fetchCalled THEN 1 ELSE 0),
                           !.advisor = @ + (IF r.aiCalled THEN 1 ELSE 0),
                           !.patch = @ + (IF r.patchCalled THEN 1 ELSE 0),
                           !.write = @ + (IF r.wrote THEN 1 ELSE 0)]
            /\ patchLog' = IF r.patchCalled
                           THEN Append(patchLog,
                                   [before |-> r.before, suggestion |-> r.suggestion,
                                    returned |-> r.updated, after |-> r.page,
                                    sites |-> r.sites, wrote |-> r.wrote])
                           ELSE patchLog
            /\ idx' = NextIndex(idx, Len(initialResults.failedTests), r.threw)
            /\ IF idx' > Len(initialResults.failedTests)
               THEN /\ testResults' = [testResults EXCEPT !.correctedSelectors = all]
                    /\ pc' = IF ShouldRerun(all) THEN "rerun" ELSE "finish"
               ELSE UNCHANGED <<testResults, pc>>
    /\ UNCHANGED <<testSrc, resultsFile, initialResults, retryResults, reported,
                   lastRun, arg, wf, srv, a2, out>>

\* index.js:72-76: the rerun; passed and failed are taken from its result
Rerun ==
    /\ pc = "rerun"
    /\ \E written \in RunnerOutputs, exitCode \in ExitCodes :
         LET r == runPlaywrightTests(resultsFile, written, exitCode)
             res == r.result
         IN /\ resultsFile' = ArtifactAfter(resultsFile, written)
            /\ lastRun' = [exitCode |-> exitCode, threw |-> r.threw,
                           artifact |-> resultsFile'.kind, result |-> res]
            /\ IF r.threw
               THEN /\ pc' = "catch"
                    /\ UNCHANGED <<retryResults, testResults>>
               ELSE /\ retryResults' = res
                    /\ testResults' = AfterRerun(testResults, res)
                    /\ pc' = NextAfterRerun(res)
    /\ calls' = [calls EXCEPT !.runner = @ + 1]
    /\ UNCHANGED <<testSrc, pageObj, initialResults, corrections, idx, attempt,
                   reported, patchLog, arg, wf, srv, a2, out>>

\* index.js:84-88 without corrections: nothing is committed or pushed
SkipPublish ==
    /\ pc = "finish"
    /\ ~ShouldPublish(testResults)
    /\ pc' = "report"
    /\ UNCHANGED <<testSrc, pageObj, resultsFile, initialResults, retryResults,
                   testResults, corrections, idx, attempt, calls, reported, patchLog,
                   lastRun, arg, wf, srv, a2, out>>

\* index.js:88-90, commitCorrections (index.js:360-381): "nothing to commit"
\* is swallowed, any other git error is thrown
CommitCorrections ==
    /\ pc = "finish"
    /\ ShouldPublish(testResults)
    /\ \E outcome \in {"ok", "nothing to commit", "error"} :
         pc' = IF outcome = "error" THEN "catch" ELSE "push"
    /\ calls' = [calls EXCEPT !.commit = @ + 1]
    /\ UNCHANGED <<testSrc, pageObj, resultsFile, initialResults, retryResults,
                   testResults, corrections, idx, attempt, reported, patchLog, lastRun,
                   arg, wf, srv, a2, out>>

\* index.js:93-95, pushCorrections (index.js:383-397): git.addConfig is
\* outside the try and may throw; a failing checkout or push is only logged
PushCorrections ==
    /\ pc = "push"
    /\ \E outcome \in {"pushed", "push failed", "config error"} :
         /\ pc' = IF outcome = "config error" THEN "catch" ELSE "pr"
         /\ calls' = [calls EXCEPT !.push = @ + 1,
                                   !.pushed = @ + (IF outcome = "pushed" THEN 1 ELSE 0)]
    /\ UNCHANGED <<testSrc, pageObj, resultsFile, initialResults, retryResults,
                   testResults, corrections, idx, attempt, reported, patchLog, lastRun,
                   arg, wf, srv, a2, out>>

\* index.js:97-100, createCorrectionPR (index.js:399-426): a failing request
\* is logged and null is returned
CreateCorrectionPR ==
    /\ pc = "pr"
    /\ \E created \in BOOLEAN :
         testResults' = [testResults EXCEPT !.correctionPrUrl = created]
    /\ calls' = [calls EXCEPT !.pr = @ + 1]
    /\ pc' = "report"
    /\ UNCHANGED <<testSrc, pageObj, resultsFile, initialResults, retryResults,
                   corrections, idx, attempt, reported, patchLog, lastRun, arg, wf, srv, a2, out>>

\* index.js:459-462: the updates object that updateJiraWithResults hands to
\* updateJiraCard
ResultsUpdate(tr) ==
    [comment |-> "results", status |-> IF tr.failed = 0 THEN "DONE" ELSE "IN PROGRESS"]

\* index.js:116-118: the updates object of the failure comment
FailureUpdate == [comment |-> "failure"]

\* updateJiraCard (jira-utils.js:146-176): transitionIssue is called with
\* updates.transition when the updates object has that key; "" when no
\* transition is requested
TransitionRequested(updates) ==
    IF "transition" \in DOMAIN updates THEN updates.transition ELSE ""

\* index.js:103-108, updateJiraWithResults (index.js:428-463): the comment
\* with the counts; updateJiraCard rethrows a failure of the issue tracker
UpdateJiraWithResults ==
    /\ pc = "report"
    /\ \/ /\ reported' = Append(reported,
                            [type |-> "results",
                             totalTests |-> testResults.totalTests,
                             passed |-> testResults.passed,
                             failed |-> testResults.failed,
                             corrected |-> Len(testResults.correctedSelectors),
                             status |-> ResultsUpdate(testResults).status,
                             transition |->
                                 TransitionRequested(ResultsUpdate(testResults))])
          /\ pc' = "returned"
       \/ /\ pc' = "catch"
          /\ UNCHANGED reported
    /\ UNCHANGED <<testSrc, pageObj, resultsFile, initialResults, retryResults,
                   testResults, corrections, idx, attempt, calls, patchLog,
                   lastRun, arg, wf, srv, a2, out>>

\* index.js:110-121: the failure comment (its own failure is swallowed), then
\* the error is rethrown
CatchError ==
    /\ pc = "catch"
    /\ \/ reported' = Append(reported,
                         [type |-> "failure", totalTests |-> 0, passed |-> 0,
                          failed |-> 0, corrected |-> 0, status |-> "",
                          transition |-> TransitionRequested(FailureUpdate)])
       \/ UNCHANGED reported
    /\ pc' = "thrown"
    /\ UNCHANGED <<testSrc, pageObj, resultsFile, initialResults, retryResults,
                   testResults, corrections, idx, attempt, calls, patchLog,
                   lastRun, arg, wf, srv, a2, out>>

Next ==
    \/ PrepareTestRepo
    \/ InitialRun
    \/ CorrectNext
    \/ Rerun
    \/ SkipPublish
    \/ CommitCorrections
    \/ PushCorrections
    \/ CreateCorrectionPR
    \/ UpdateJiraWithResults
    \/ CatchError

Spec == Init /\ [][Next]_vars

\* the shape of the state
TypeOK ==
    /\ pc \in {"start", "initialRun", "correct", "rerun", "finish", "push", "pr",
               "report", "catch", "returned", "thrown"}
    /\ testSrc \in RunSources
    /\ pageObj \in Seq(STRING)
    /\ idx \in 0..(MaxTests + 1)
    /\ Len(corrections) <= MaxTests
    /\ \A k \in DOMAIN calls : calls[k] \in 0..(MaxTests + 2)

----------------------------------------------------------------------------
(* runPlaywrightTests as a function of the artifact: RunnerSpec            *)

\* most suites in one enumerated report
MaxSuites == 2

RichTests == {Null, PassedTest, LocatorFailure}

RichSuites ==
    {Null, Suite(Undefined), Suite(NotArray)}
        \cup {Suite(Array(ts)) : ts \in SeqsOf(RichTests, 0, MaxTests)}

RichReports ==
    {Missing, Unparseable, Null, Report(Undefined), Report(NotArray)}
        \cup {Report(Array(ss)) : ss \in SeqsOf(RichSuites, 0, MaxSuites)}

RunnerInit ==
    /\ Fresh
    /\ pc = "runner"
    /\ wf = NoWorkflow
    /\ NothingElse
    /\ testSrc = NoSource
    /\ pageObj = Unreadable
    /\ \/ /\ resultsFile = Missing
          /\ arg \in [written : RichReports, exitCode : ExitCodes]
       \/ /\ resultsFile \in {Missing, Report(Array(<<Suite(Array(<<PassedTest>>))>>))}
          /\ arg \in [written : {[kind |-> "nothing"]}, exitCode : ExitCodes]

\* one call of runPlaywrightTests on the checkout
RunnerCall ==
    /\ pc = "runner"
    /\ LET r == runPlaywrightTests(resultsFile, arg.written, arg.exitCode)
       IN /\ resultsFile' = ArtifactAfter(resultsFile, arg.written)
          /\ lastRun' = [exitCode |-> arg.exitCode, threw |-> r.threw,
                         artifact |-> resultsFile'.kind, result |-> r.result]
          /\ initialResults' = r.result
    /\ calls' = [calls EXCEPT !.runner = @ + 1]
    /\ pc' = "runnerDone"
    /\ UNCHANGED <<testSrc, pageObj, retryResults, testResults, corrections, idx,
                   attempt, reported, patchLog, arg, wf, srv, a2, out>>

RunnerSpec == RunnerInit /\ [][RunnerCall]_vars

----------------------------------------------------------------------------
(* updatePageObjectSelector as a function of the file and the suggestion:  *)
(* PatchSpec                                                               *)

PatchChars == {"'", ")", "a"}
PatchPages == SeqsOf(PatchChars, 0, MaxContentLen) \cup {Unreadable}
PatchOriginals == SeqsOf({"a"}, 0, MaxSelectorLen) \cup {NoValue}
PatchSuggested ==
    {<<>>, <<"a">>, <<"a", "a">>, <<"b">>, <<"a", "'", "a">>, <<"$">>, <<"$", "&">>,
     NoValue}
PatchSources == {[readable |-> TRUE, importsPage |-> TRUE, gotoUrl |-> TRUE]}
\* test sources from which no page object can be resolved
UnresolvedSources == RunSources \ {s \in RunSources : s.readable /\ s.importsPage}

PatchInit ==
    /\ Fresh
    /\ pc = "patch"
    /\ wf = NoWorkflow
    /\ NothingElse
    /\ resultsFile = Missing
    /\ \/ testSrc \in PatchSources /\ pageObj \in PatchPages
       \/ testSrc \in UnresolvedSources /\ pageObj \in RunPages
    /\ arg \in {Suggestion(o, n, "high") : o \in PatchOriginals, n \in PatchSuggested}

\* what a call of updatePageObjectSelector with the arguments arg does
PatchStep(writeOk) ==
    LET r == updatePageObjectSelector(testSrc, pageObj, arg, writeOk)
    IN /\ pageObj' = r.page
       /\ patchLog' = Append(patchLog,
                         [before |-> pageObj, suggestion |-> arg,
                          returned |-> r.returned, after |-> r.page,
                          sites |-> r.sites, wrote |-> r.wrote])
       /\ calls' = [calls EXCEPT !.patch = @ + 1,
                                 !.write = @ + (IF r.wrote THEN 1 ELSE 0)]

\* a first call
PatchCall ==
    /\ pc = "patch"
    /\ \E writeOk \in BOOLEAN : PatchStep(writeOk)
    /\ pc' = "patched"
    /\ UNCHANGED <<testSrc, resultsFile, initialResults, retryResults, testResults,
                   corrections, idx, attempt, reported, lastRun, arg, wf, srv, a2, out>>

\* a second call with the same arguments
PatchAgain ==
    /\ pc = "patched"
    /\ \E writeOk \in BOOLEAN : PatchStep(writeOk)
    /\ pc' = "patchedTwice"
    /\ UNCHANGED <<testSrc, resultsFile, initialResults, retryResults, testResults,
                   corrections, idx, attempt, reported, lastRun, arg, wf, srv, a2, out>>

PatchNext == PatchCall \/ PatchAgain

PatchSpec == PatchInit /\ [][PatchNext]_vars

----------------------------------------------------------------------------
(* Properties of the repair loop (triggerAgent3), checked under Spec       *)

\* the counts of a result or of a report to the issue tracker
Counts(r) == <<r.totalTests, r.passed, r.failed>>

\* the reports of final results that the issue tracker received
ResultReports == {i \in DOMAIN reported : reported[i].type = "results"}

\* the repair loop is over: triggerAgent3 is at or past index.js:84
LoopDone == pc \in {"finish", "push", "pr", "report", "returned"}

\* C1: when the initial run reports failed = 0, correctFailedSelectors, the
\* page fetch, the advisory call and updatePageObjectSelector are never
\* invoked, no file is written, and the counts kept and reported as final
\* are those of the initial run.
C1_NoCorrectionWhenAllPass ==
    (calls.runner >= 1 /\ initialResults.failed = 0) =>
        /\ calls.corrector = 0 /\ calls.fetch = 0 /\ calls.advisor = 0
        /\ calls.patch = 0 /\ calls.write = 0
        /\ calls.runner = 1
        /\ Counts(testResults) = Counts(initialResults)
        /\ \A i \in ResultReports : Counts(reported[i]) = Counts(initialResults)

C1_Witness ==
    /\ pc = "returned"
    /\ initialResults.failed = 0
    /\ initialResults.totalTests > 0
    /\ ResultReports # {}

\* C2: the runner is re-invoked exactly once after the initial run when the
\* list of applied corrections is non-empty and not at all when it is
\* empty; it is never invoked more than twice in a run.
C2_RerunIffCorrections ==
    /\ calls.runner <= 2
    /\ LoopDone =>
         calls.runner = 1 + (IF Len(testResults.correctedSelectors) > 0 THEN 1 ELSE 0)
    /\ pc = "rerun" => (calls.runner = 1 /\ Len(testResults.correctedSelectors) > 0)

C2_Witness ==
    /\ pc = "returned"
    /\ calls.runner = 2
    /\ Len(testResults.correctedSelectors) = 1
    /\ Len(initialResults.failedTests) = 2

\* C3: correctFailedSelectors is invoked at most once in a run, and after
\* the rerun the run never returns to correction (nor to another rerun),
\* even when the rerun still reports failures.
C3_NoSecondCorrectionPass ==
    /\ calls.corrector <= 1
    /\ calls.runner >= 2 => pc \notin {"correct", "rerun", "initialRun"}

C3_Witness ==
    /\ pc = "returned"
    /\ calls.runner = 2
    /\ retryResults.failed > 0
    /\ calls.corrector = 1

\* C4: an iteration of correctFailedSelectors whose advisory confidence is
\* neither high nor medium calls updatePageObjectSelector not at all, writes
\* no file and adds nothing to the applied corrections.
C4_LowConfidenceNeverApplied ==
    [][(pc = "correct" /\ idx' = idx + 1 /\ attempt'.parsed
          /\ attempt'.confidence \notin {"high", "medium"})
       => (/\ calls'.patch = calls.patch
           /\ calls'.write = calls.write
           /\ pageObj' = pageObj
           /\ corrections' = corrections
           /\ patchLog' = patchLog)]_vars

C4_Witness ==
    /\ attempt.parsed
    /\ attempt.confidence = "low"
    /\ RegexTest(QuotedLiteralPattern(<<"a">>), pageObj)
    /\ testSrc.importsPage

\* C5: when corrections were applied and the rerun took place, every count
\* reported for the run (total, passed, failed) is the rerun's count.
C5_FinalCountsAreRerunCounts ==
    (calls.runner = 2 /\ LoopDone) =>
        /\ Counts(testResults) = Counts(retryResults)
        /\ \A i \in ResultReports : Counts(reported[i]) = Counts(retryResults)

\* C6: when the initial run has failures but correctFailedSelectors returns
\* an empty list, no rerun happens, no commit, push or pull request is
\* attempted, and the counts kept and reported are those of the initial run.
C6_NoCorrectionsNoRerun ==
    (calls.corrector = 1 /\ pc # "correct" /\ initialResults.failed > 0
        /\ corrections = <<>>) =>
        /\ calls.runner = 1
        /\ calls.commit = 0 /\ calls.push = 0 /\ calls.pr = 0
        /\ ~testResults.correctionPrUrl
        /\ Counts(testResults) = Counts(initialResults)
        /\ \A i \in ResultReports : Counts(reported[i]) = Counts(initialResults)

C6_Witness ==
    /\ pc = "returned"
    /\ initialResults.failed > 0
    /\ corrections = <<>>
    /\ calls.advisor >= 1
    /\ ResultReports # {}

----------------------------------------------------------------------------
(* Properties of runPlaywrightTests, checked under RunnerSpec              *)

\* C7: every result returned by runPlaywrightTests has
\* totalTests = passed + failed and failed = number of failedTests.
C7_CountsConsistent ==
    pc = "runnerDone" =>
        /\ lastRun.result.totalTests = lastRun.result.passed + lastRun.result.failed
        /\ lastRun.result.failed = Len(lastRun.result.failedTests)

\* C8: runPlaywrightTests surfaces no error, whatever the exit code of the
\* runner; with a missing or unreadable artifact the result has zero
\* counts and no failed tests.
C8_RunnerNeverThrows ==
    pc = "runnerDone" =>
        /\ ~lastRun.threw
        /\ lastRun.artifact \in {"missing", "unparseable"}
              => lastRun.result = EmptyResult

C8_Witness ==
    /\ pc = "runnerDone"
    /\ lastRun.exitCode # 0
    /\ lastRun.artifact = "missing"

----------------------------------------------------------------------------
(* Properties of updatePageObjectSelector, checked under PatchSpec         *)

\* the text has none of the replacement patterns of String.prototype.replace
PlainText(text) == \A k \in 1..Len(text) : text[k] # "$"

C10_SecondCallNoChange ==
    (pc = "patchedTwice" /\ patchLog[1].returned) =>
        /\ ~patchLog[2].returned
        /\ patchLog[2].after = patchLog[1].after

\* the test source and the page object are such that no replacement pattern
\* can apply to the entry e of patchLog: the page object cannot be resolved
\* or read, or neither pattern occurs in it
NoPatternApplies(e) ==
    LET orig == e.suggestion.originalSelector
    IN \/ ~testSrc.readable
       \/ ~testSrc.importsPage
       \/ e.before = Unreadable
       \/ /\ orig \notin {NoValue, NonString}
          /\ \A k \in 1..Len(selectorPatterns(orig)) :
                ~RegexTest(selectorPatterns(orig)[k], e.before)

\* C11: a call of updatePageObjectSelector for which no replacement pattern
\* matches the page-object file, or whose page-object file cannot be
\* resolved or read, writes nothing, leaves the file as it was and returns
\* false.
C11_NoMatchNoWrite ==
    \A i \in DOMAIN patchLog :
        NoPatternApplies(patchLog[i]) =>
            /\ ~patchLog[i].returned
            /\ ~patchLog[i].wrote
            /\ patchLog[i].after = patchLog[i].before

C11_Witness ==
    /\ pc = "patched"
    /\ testSrc.readable /\ testSrc.importsPage
    /\ patchLog[1].before = <<"'", "a", "'">>
    /\ patchLog[1].suggestion.originalSelector = <<"a", "a">>
    /\ patchLog[1].suggestion.suggestedSelector = <<"b">>
    /\ ~patchLog[1].returned

\* C16: a suggestion that lacks originalSelector or suggestedSelector never
\* leads to a write of the page-object file nor to a call that reports a
\* change.
C16_MissingFieldNeverWritten ==
    \A i \in DOMAIN patchLog :
        (\/ patchLog[i].suggestion.originalSelector = NoValue
         \/ patchLog[i].suggestion.suggestedSelector = NoValue) =>
            /\ ~patchLog[i].returned
            /\ ~patchLog[i].wrote
            /\ patchLog[i].after = patchLog[i].before

----------------------------------------------------------------------------
(* Properties of correctFailedSelectors, checked under Spec                *)

\* the failed test that the next iteration of the loop works on
CurrentFailedTest == initialResults.failedTests[idx]

\* the step is an iteration of the loop of correctFailedSelectors
LoopIteration == pc = "correct" /\ attempt'.test = idx

\* the iteration of the step patched nothing and recorded nothing
NothingApplied ==
    /\ calls'.patch = calls.patch
    /\ calls'.write = calls.write
    /\ pageObj' = pageObj
    /\ corrections' = corrections
    /\ patchLog' = patchLog

\* C12: an applied correction is recorded only when the patch changed the
\* content of the page-object file; no recorded correction has a new locator
\* equal to the original one.
C12_RecordedOnlyOnChange ==
    /\ \A i \in DOMAIN patchLog :
          patchLog[i].returned => patchLog[i].after # patchLog[i].before
    /\ \A i \in DOMAIN corrections :
          corrections[i].originalSelector # corrections[i].newSelector

\* C13: the loop of correctFailedSelectors starts at the first failed test
\* of the initial run and each iteration works on the next one, whether or
\* not the iteration threw; the loop ends after the last failed test, and
\* the run then continues in triggerAgent3 and never enters its catch.
C13_EveryFailedTestOnce ==
    [][/\ (pc # "correct" /\ pc' = "correct") => idx' = 1
       /\ pc = "correct" =>
            /\ idx <= Len(initialResults.failedTests)
            /\ attempt'.test = idx
            /\ idx' = idx + 1
            /\ initialResults' = initialResults
            /\ pc' \in {"correct", "rerun", "finish"}
            /\ (pc' = "correct") <=> (idx < Len(initialResults.failedTests))]_vars

C13_Witness ==
    /\ pc = "correct"
    /\ attempt.test = 1
    /\ attempt.threw
    /\ idx = 2
    /\ Len(initialResults.failedTests) = 2

\* C14: an iteration for a failed test whose error message yields no
\* locator, or whose test source yields no page URL, fetches no page, calls
\* neither the advisory backend nor updatePageObjectSelector, records
\* nothing, and the loop goes on to the next failed test.
C14_SkippedWithoutLocatorOrUrl ==
    [][(/\ pc = "correct"
        /\ \/ ExtractSelector(CurrentFailedTest.error) = NoValue
           \/ ~SourceOf(CurrentFailedTest.file, testSrc).gotoUrl)
       => (/\ calls'.fetch = calls.fetch
           /\ calls'.advisor = calls.advisor
           /\ NothingApplied
           /\ idx' = idx + 1
           /\ pc' # "catch")]_vars

C14_Witness ==
    /\ pc = "returned"
    /\ initialResults.failedTests =
          <<[name |-> "t-timeout", file |-> SpecFile, error |-> <<"Unknown error">>],
            [name |-> "t-locator", file |-> SpecFile,
             error |-> <<"locator(", "'", "a", "'", ")">>]>>
    /\ testSrc.readable /\ ~testSrc.gotoUrl
    /\ calls.corrector = 1
    /\ calls.fetch = 0

\* the advisory response text is not one JSON value: prose surrounds it
NotJson(response) ==
    /\ response.kind = "text"
    /\ \E k \in DOMAIN response.text : response.text[k].kind = "prose"

\* C15: an iteration whose advisory response cannot be parsed ends with an
\* error that the iteration catches: no confidence is read from it, nothing
\* is patched and nothing is recorded.
C15_UnparseableAdviceSkipped ==
    [][(LoopIteration /\ NotJson(attempt'.response))
       => (/\ attempt'.threw
           /\ ~attempt'.parsed
           /\ attempt'.confidence = ""
           /\ NothingApplied
           /\ pc' # "catch")]_vars

C15_Witness ==
    /\ NotJson(attempt.response)
    /\ attempt.threw
    /\ RegexTest(QuotedLiteralPattern(<<"a">>), pageObj)
    /\ testSrc.importsPage

\* C17: an iteration whose page fetch fails makes that one request and no
\* other, does not call the advisory backend, patches and records nothing,
\* and the loop goes on to the next failed test.
C17_FailedFetchSkipsAdvice ==
    [][(LoopIteration /\ attempt'.fetchCalled /\ ~attempt'.fetched)
       => (/\ calls'.fetch = calls.fetch + 1
           /\ calls'.advisor = calls.advisor
           /\ ~attempt'.aiCalled
           /\ NothingApplied
           /\ idx' = idx + 1
           /\ pc' # "catch")]_vars

C17_Witness ==
    /\ pc = "correct"
    /\ attempt.test = 1
    /\ attempt.fetchCalled
    /\ ~attempt.fetched
    /\ ~attempt.aiCalled
    /\ idx = 2

----------------------------------------------------------------------------
(* triggerFullWorkflow (server.js:73-124) with triggerAgent1               *)
(* (agents/agent1-test-creator/index.js): WorkflowSpec                     *)
(* triggerAgent2 and triggerAgent3 are calls with an outcome; wf.log is    *)
(* the sequence of calls, returns, throws and posted issue comments.       *)

\* most scenarios that the generation of test cases returns
MaxScenarios == 2

\* the file shared/test-cases/KEY-test-cases.json as triggerAgent1 writes it
\* (JSON.stringify of the generated object): it has the key scenarios and
\* no key testCases; testCases is the number of entries under that key
SavedFile(n) == [kind |-> "object", scenarios |-> n, testCases |-> 0]

\* server.js:86-94: testCases = data.testCases || [], and [] when the file
\* cannot be read; the number of test cases loaded
LoadedTestCases(file) == IF file.kind = "missing" THEN 0 ELSE file.testCases

\* the issue of the webhook payload carries fields; the issue built by the
\* manual triggers (server.js:137, 181) is {key, summary}
WorkflowIssues == {[hasFields |-> TRUE], [hasFields |-> FALSE]}

WorkflowInit ==
    /\ Fresh
    /\ pc = "workflow"
    /\ NothingElse
    /\ testSrc = NoSource
    /\ pageObj = Unreadable
    /\ resultsFile = Missing
    /\ arg = Null
    /\ wf \in [kind : {"run"}, issue : WorkflowIssues, sinkUp : BOOLEAN,
               file : {Missing, SavedFile(1)}, log : {<<>>}, scenarios : {0},
               testCases : {0}, prUrl : {FALSE}, settled : {"pending"}]

\* answers of the issue tracker to updateJiraCard (jira-utils.js:146-165):
\* a tracker that is up accepts every call
JiraAnswers == IF wf.sinkUp THEN {TRUE} ELSE BOOLEAN

Logged(events) == [wf EXCEPT !.log = @ \o events]

\* the variables of the other specifications
WorkflowFrame ==
    UNCHANGED <<testSrc, pageObj, resultsFile, initialResults, retryResults,
                testResults, corrections, idx, attempt, calls, reported, patchLog,
                lastRun, arg, srv, a2, out>>

\* one call of triggerAgent2 (agents/agent2-script-generator/index.js:16-111)
\* by caller: it returns after its completion comment, or posts a failure
\* comment (a failure of that post is swallowed) and rethrows
Agent2Events(caller, ok, commented) ==
    <<caller \o ".call">>
        \o (IF ok THEN <<"a2.comment.completed", caller \o ".returned">>
            ELSE (IF commented THEN <<"a2.comment.failed">> ELSE <<>>)
                 \o <<caller \o ".threw">>)

\* variant: a failing triggerAgent3 posts no failure comment
Agent3Events_SilentFailure(ok, commented) ==
    <<"a3.call">>
        \o (IF ok THEN <<"a3.comment.results", "a3.returned">> ELSE <<"a3.threw">>)

\* one call of triggerAgent3 (agents/agent3-test-executor/index.js:26-122):
\* it returns after the results comment, or posts a failure comment (a
\* failure of that post is swallowed) and rethrows
Agent3Events(ok, commented) ==
    <<"a3.call">>
        \o (IF ok THEN <<"a3.comment.results", "a3.returned">>
            ELSE (IF commented THEN <<"a3.comment.failed">> ELSE <<>>)
                 \o <<"a3.threw">>)

\* server.js:73-81: the run starts and calls triggerAgent1
StartWorkflow ==
    /\ pc = "workflow"
    /\ wf' = Logged(<<"a1.call">>)
    /\ pc' = "agent1"
    /\ WorkflowFrame

\* agent1:21-32: issue.fields.description throws for an issue without
\* fields; then the comment that the agent started
Agent1Start ==
    /\ pc = "agent1"
    /\ IF ~wf.issue.hasFields
       THEN pc' = "agent1Catch" /\ UNCHANGED wf
       ELSE \E ok \in JiraAnswers :
              IF ok THEN wf' = Logged(<<"a1.comment.started">>) /\ pc' = "generate"
                    ELSE pc' = "agent1Catch" /\ UNCHANGED wf
    /\ WorkflowFrame

\* agent1:36-41: generateTestCases returns at least one scenario or throws
Agent1Generate ==
    /\ pc = "generate"
    /\ \/ \E n \in 1..MaxScenarios :
            /\ wf' = [Logged(<<"a1.generated">>) EXCEPT !.scenarios = n]
            /\ pc' = "save"
       \/ pc' = "agent1Catch" /\ UNCHANGED wf
    /\ WorkflowFrame

\* agent1:44-50: the generated object is written to the test-case file
Agent1Save ==
    /\ pc = "save"
    /\ \/ /\ wf' = [Logged(<<"a1.saved">>) EXCEPT !.file = SavedFile(wf.scenarios)]
          /\ pc' = "announce"
       \/ pc' = "agent1Catch" /\ UNCHANGED wf
    /\ WorkflowFrame

\* agent1:52-60: the comment with the generated scenarios
Agent1Announce ==
    /\ pc = "announce"
    /\ \E ok \in JiraAnswers :
         IF ok THEN wf' = Logged(<<"a1.comment.completed">>) /\ pc' = "handoff"
               ELSE pc' = "agent1Catch" /\ UNCHANGED wf
    /\ WorkflowFrame

\* agent1:63-65: triggerAgent1 itself calls triggerAgent2 and awaits it
\* inside its try; when that call returns, triggerAgent1 returns
Agent1Handoff ==
    /\ pc = "handoff"
    /\ \E ok \in BOOLEAN, commented \in JiraAnswers :
         /\ wf' = Logged(Agent2Events("a1.a2", ok, commented)
                          \o (IF ok THEN <<"a1.returned">> ELSE <<>>))
         /\ pc' = IF ok THEN "loadTestCases" ELSE "agent1Catch"
    /\ WorkflowFrame

\* variant: the orchestrator goes on after a failure of triggerAgent1
AfterAgent1Failure_Continue == "loadTestCases"

\* server.js:81, 121: triggerAgent1 is awaited in the outer try only, so
\* its error arrives in the outer catch
AfterAgent1Failure == "fatal"

\* agent1:68-82: the failure comment (its own failure is swallowed), then
\* the error is rethrown
Agent1Catch ==
    /\ pc = "agent1Catch"
    /\ \E ok \in JiraAnswers :
         wf' = Logged((IF ok THEN <<"a1.comment.failed">> ELSE <<>>) \o <<"a1.threw">>)
    /\ pc' = AfterAgent1Failure
    /\ WorkflowFrame

\* server.js:84-94: the test cases for triggerAgent2 are read from the file
LoadTestCases ==
    /\ pc = "loadTestCases"
    /\ wf' = [wf EXCEPT !.testCases = LoadedTestCases(wf.file)]
    /\ pc' = "agent2"
    /\ WorkflowFrame

\* server.js:96-106: triggerAgent2 in its own try/catch; prUrl is set only
\* when it returned
OrchestratorAgent2 ==
    /\ pc = "agent2"
    /\ \E ok \in BOOLEAN, commented \in JiraAnswers :
         wf' = [Logged(Agent2Events("a2", ok, commented)) EXCEPT !.prUrl = ok]
    /\ pc' = "agent3"
    /\ WorkflowFrame

\* variant: an error of triggerAgent3 arrives in the outer catch
AfterAgent3_Rethrow(ok) == IF ok THEN "complete" ELSE "fatal"

\* server.js:110-115: an error of triggerAgent3 is logged and the run goes on
AfterAgent3(ok) == "complete"

\* server.js:108-115: triggerAgent3 in its own try/catch
OrchestratorAgent3 ==
    /\ pc = "agent3"
    /\ \E ok \in BOOLEAN, commented \in JiraAnswers :
         /\ wf' = Logged(Agent3Events(ok, commented))
         /\ pc' = AfterAgent3(ok)
    /\ WorkflowFrame

\* server.js:117-120: the completion banner; the promise is fulfilled
CompleteWorkflow ==
    /\ pc = "complete"
    /\ wf' = [Logged(<<"completed">>) EXCEPT !.settled = "fulfilled"]
    /\ pc' = "settled"
    /\ WorkflowFrame

\* server.js:121-123: the outer catch logs the error; the promise is
\* fulfilled
FatalWorkflow ==
    /\ pc = "fatal"
    /\ wf' = [Logged(<<"fatal">>) EXCEPT !.settled = "fulfilled"]
    /\ pc' = "settled"
    /\ WorkflowFrame

WorkflowNext ==
    \/ StartWorkflow
    \/ Agent1Start
    \/ Agent1Generate
    \/ Agent1Save
    \/ Agent1Announce
    \/ Agent1Handoff
    \/ Agent1Catch
    \/ LoadTestCases
    \/ OrchestratorAgent2
    \/ OrchestratorAgent3
    \/ CompleteWorkflow
    \/ FatalWorkflow

WorkflowSpec == WorkflowInit /\ [][WorkflowNext]_vars

\* every await of the run settles: the collaborators answer or fail (the
\* requests carry timeouts), so a run that can take a step takes it
WorkflowLiveSpec == WorkflowSpec /\ WF_vars(WorkflowNext)

----------------------------------------------------------------------------
(* Properties of triggerFullWorkflow, checked under WorkflowSpec           *)

\* the positions of the event e in the log
Positions(e) == {i \in DOMAIN wf.log : wf.log[i] = e}

Happened(e) == Positions(e) # {}

\* calls of the stages Materialize and Execute, by whoever makes them
StageCalls == {"a1.a2.call", "a2.call", "a3.call"}

\* C18: once triggerAgent1 has thrown, the run calls neither triggerAgent2
\* nor triggerAgent3 any more, and ends in the outer catch.
C18_CreateFailureAborts ==
    /\ \A i \in Positions("a1.threw") :
          \A j \in DOMAIN wf.log : j > i => wf.log[j] \notin StageCalls
    /\ (pc = "settled" /\ Happened("a1.threw")) =>
          (Happened("fatal") /\ ~Happened("a2.call") /\ ~Happened("a3.call"))

C18_Witness ==
    /\ pc = "settled"
    /\ Happened("a1.threw")
    /\ Happened("a1.comment.started")
    /\ ~Happened("a1.generated")

\* C19: in a run whose scenario generation succeeded, a failure of a call
\* of triggerAgent2 is followed by a call of triggerAgent3.
C19_MaterializeFailureRecoverable ==
    (/\ pc = "settled"
     /\ Happened("a1.generated")
     /\ (Happened("a1.a2.threw") \/ Happened("a2.threw")))
    => Happened("a3.call")

\* C20: the promise of triggerFullWorkflow is never rejected; after an
\* error of triggerAgent3 the run reaches its completion step.
C20_WorkflowNeverRejects ==
    /\ wf.settled # "rejected"
    /\ pc = "settled" => wf.settled = "fulfilled"
    /\ (pc = "settled" /\ Happened("a3.threw")) =>
          (Happened("completed") /\ ~Happened("fatal"))

C20_Witness ==
    /\ pc = "settled"
    /\ Happened("a3.threw")
    /\ Happened("a2.threw")

\* C21: every run reaches its completion step (server.js:117-119).
C21_CompletionAlwaysReached == <>Happened("completed")

\* comments on the issue, and those that report a final status: the results
\* of the execution or the failure of a stage
CommentEvents ==
    {"a1.comment.started", "a1.comment.completed", "a1.comment.failed",
     "a2.comment.completed", "a2.comment.failed",
     "a3.comment.results", "a3.comment.failed"}
StatusComments ==
    {"a1.comment.failed", "a2.comment.failed", "a3.comment.results",
     "a3.comment.failed"}

\* the last comment that the issue received is a status comment
LastCommentIsStatus ==
    \E i \in DOMAIN wf.log :
        /\ wf.log[i] \in StatusComments
        /\ \A j \in DOMAIN wf.log : j > i => wf.log[j] \notin CommentEvents

\* C22: every run ends, and when the issue tracker accepts every call the
\* last comment on the issue at the end of the run is the final results or
\* the failure comment of a stage.
C22_RunEndsWithStatusComment ==
    /\ <>(pc = "settled")
    /\ []((pc = "settled" /\ wf.sinkUp) => LastCommentIsStatus)

C22_Witness ==
    /\ pc = "settled"
    /\ wf.sinkUp
    /\ Happened("a2.comment.completed")
    /\ Happened("a3.threw")
    /\ LastCommentIsStatus

\* calls of triggerAgent2 in the run, by triggerAgent1 and by the
\* orchestrator
MaterializeCalls == Positions("a1.a2.call") \cup Positions("a2.call")

\* C23: triggerAgent2 is called at most once in a run, and only after
\* triggerAgent1 has returned; triggerAgent3 is called at most once, and
\* only after a call of triggerAgent2 has ended.
C23_StagesSequentialOnce ==
    /\ Cardinality(MaterializeCalls) <= 1
    /\ \A i \in MaterializeCalls :
          \E j \in Positions("a1.returned") : j < i
    /\ Cardinality(Positions("a3.call")) <= 1
    /\ \A i \in Positions("a3.call") :
          \E j \in Positions("a2.returned") \cup Positions("a2.threw") : j < i

\* C24: when triggerAgent1 returned with N scenarios, the orchestrator
\* calls triggerAgent2 with a list of those N test cases.
C24_MaterializeGetsScenarios ==
    (Happened("a1.returned") /\ Happened("a2.call")) => wf.testCases = wf.scenarios

----------------------------------------------------------------------------
(* The server (server.js): the webhook and concurrent workflow runs,       *)
(* ServerSpec. A run is followed through its uses of the working checkout. *)

\* most webhook events that arrive
MaxEvents == 2

IssueKeys == {"SCRUM-1", "SCRUM-2"}

\* bodies of the webhook request: with an issue, or without one
Payloads ==
    {[hasIssue |-> FALSE, key |-> ""]} \cup {[hasIssue |-> TRUE, key |-> k] : k \in IssueKeys}

\* agent3 index.js:35 and agent2 index.js:26: the working checkout is
\* path.join(__dirname, '..', '..', 'temp-repo'), whatever the issue
RepoDir(issueKey) == "temp-repo"

WorkDirs == {RepoDir(k) : k \in IssueKeys}

ServerInit ==
    /\ Fresh
    /\ pc = "server"
    /\ testSrc = NoSource
    /\ pageObj = Unreadable
    /\ resultsFile = Missing
    /\ arg = Null
    /\ wf = NoWorkflow
    /\ a2 = NoAgent2
    /\ out = NoValue
    /\ srv = [kind |-> "server", events |-> 0, payloads |-> <<>>, responses |-> <<>>,
              runs |-> <<>>, checkout |-> [d \in WorkDirs |-> 0], errors |-> 0]

ServerFrame ==
    UNCHANGED <<pc, testSrc, pageObj, resultsFile, initialResults, retryResults,
                testResults, corrections, idx, attempt, calls, reported, patchLog,
                lastRun, arg, wf, a2, out>>

\* variant: a workflow is started for every event
StartsWorkflow_Always(payload) == TRUE

\* server.js:51: a workflow is started only for a payload with an issue
StartsWorkflow(payload) == payload.hasIssue

\* server.js:44-65: the handler answers 200 and then calls
\* triggerFullWorkflow without awaiting it; its rejection is only logged
WebhookReceive ==
    /\ srv.events < MaxEvents
    /\ \E payload \in Payloads :
         LET e == srv.events + 1
             response == [event |-> e, status |-> 200,
                          body |-> IF StartsWorkflow(payload)
                                   THEN "processing" ELSE "no issue"]
             run == [event |-> e, issue |-> payload.key, stage |-> "create",
                     intact |-> TRUE, failed |-> FALSE]
         IN srv' = [srv EXCEPT !.events = e,
                               !.payloads = Append(@, payload),
                               !.responses = Append(@, response),
                               !.runs = IF StartsWorkflow(payload)
                                        THEN Append(@, run) ELSE @]
    /\ ServerFrame

\* server.js:79-82, 121-123: the Create stage; its failure ends the run in
\* the outer catch, which logs it
RunCreate(r) ==
    /\ srv.runs[r].stage = "create"
    /\ \/ srv' = [srv EXCEPT !.runs[r].stage = "materialize"]
       \/ srv' = [srv EXCEPT !.runs[r].stage = "settled", !.runs[r].failed = TRUE,
                             !.errors = @ + 1]
    /\ ServerFrame

\* agent2 index.js:26-51: triggerAgent2 removes the working checkout and
\* clones into it; a failure is caught at server.js:104
RunMaterializePrepare(r) ==
    /\ srv.runs[r].stage = "materialize"
    /\ \/ srv' = [srv EXCEPT !.runs[r].stage = "publish",
                             !.checkout[RepoDir(srv.runs[r].issue)] = r]
       \/ srv' = [srv EXCEPT !.runs[r].stage = "execute"]
    /\ ServerFrame

\* agent2 index.js:59-85: triggerAgent2 writes the generated files into the
\* working checkout, commits and pushes; intact: the checkout is still the
\* one this run cloned
RunMaterializePublish(r) ==
    /\ srv.runs[r].stage = "publish"
    /\ srv' = [srv EXCEPT !.runs[r].stage = "execute",
                          !.runs[r].intact =
                              @ /\ srv.checkout[RepoDir(srv.runs[r].issue)] = r]
    /\ ServerFrame

\* agent3 index.js:35, 124-136: prepareTestRepo removes the working checkout
\* and clones into it; a failure is caught at server.js:113
RunExecutePrepare(r) ==
    /\ srv.runs[r].stage = "execute"
    /\ \/ srv' = [srv EXCEPT !.runs[r].stage = "testing",
                             !.checkout[RepoDir(srv.runs[r].issue)] = r]
       \/ srv' = [srv EXCEPT !.runs[r].stage = "complete"]
    /\ ServerFrame

\* agent3 index.js:53-100: the tests run in the working checkout and the
\* page objects in it are patched and committed
RunExecuteTests(r) ==
    /\ srv.runs[r].stage = "testing"
    /\ srv' = [srv EXCEPT !.runs[r].stage = "complete",
                          !.runs[r].intact =
                              @ /\ srv.checkout[RepoDir(srv.runs[r].issue)] = r]
    /\ ServerFrame

\* server.js:117-120: the run completes
RunComplete(r) ==
    /\ srv.runs[r].stage = "complete"
    /\ srv' = [srv EXCEPT !.runs[r].stage = "settled"]
    /\ ServerFrame

ServerNext ==
    \/ WebhookReceive
    \/ \E r \in DOMAIN srv.runs : RunCreate(r)
    \/ \E r \in DOMAIN srv.runs : RunMaterializePrepare(r)
    \/ \E r \in DOMAIN srv.runs : RunMaterializePublish(r)
    \/ \E r \in DOMAIN srv.runs : RunExecutePrepare(r)
    \/ \E r \in DOMAIN srv.runs : RunExecuteTests(r)
    \/ \E r \in DOMAIN srv.runs : RunComplete(r)

ServerSpec == ServerInit /\ [][ServerNext]_vars

----------------------------------------------------------------------------
(* Properties of the server, checked under ServerSpec                      *)

\* the run is between cloning its working checkout and its last use of it
InUse(r) == srv.runs[r].stage \in {"publish", "testing"}

\* C25: two runs for different issues that use a working checkout at the
\* same time use different directories, and every run finds, whenever it
\* uses its checkout, the checkout that it cloned itself.
C25_DistinctWorkDirs ==
    /\ \A r1, r2 \in DOMAIN srv.runs :
          (r1 # r2 /\ InUse(r1) /\ InUse(r2)
             /\ srv.runs[r1].issue # srv.runs[r2].issue)
          => RepoDir(srv.runs[r1].issue) # RepoDir(srv.runs[r2].issue)
    /\ \A r \in DOMAIN srv.runs : srv.runs[r].intact

\* the runs started for the event e
RunsOf(e) == {r \in DOMAIN srv.runs : srv.runs[r].event = e}

\* C26: every event is answered with status 200, whatever becomes of the
\* workflow; an event with an issue has exactly one run, whose answer was
\* sent before the run took its first step; an event without an issue has
\* no run.
C26_AckThenFireAndForget ==
    /\ Len(srv.responses) = srv.events
    /\ \A e \in 1..srv.events :
          /\ srv.responses[e].event = e
          /\ srv.responses[e].status = 200
          /\ IF srv.payloads[e].hasIssue
             THEN Cardinality(RunsOf(e)) = 1 /\ srv.responses[e].body = "processing"
             ELSE RunsOf(e) = {} /\ srv.responses[e].body = "no issue"
    /\ \A r \in DOMAIN srv.runs : srv.runs[r].event \in DOMAIN srv.responses

C26_Witness ==
    /\ srv.events = 2
    /\ srv.payloads[1].hasIssue
    /\ ~srv.payloads[2].hasIssue
    /\ srv.runs[1].failed
    /\ srv.runs[1].stage = "settled"

----------------------------------------------------------------------------
(* triggerAgent2 and generatePlaywrightScript                              *)
(* (agents/agent2-script-generator/index.js): Agent2Spec                   *)
(* A file path is the sequence of its segments between slashes.            *)

\* longest tail of a generated path after its directory prefix
MaxTailLen == 2
\* most files in one answer of the generator
MaxFiles == 2

\* agent2 index.js:205-206
allowedDirs ==
    {<<"tests", "pages">>, <<"tests", "e2e">>, <<"tests", "ui">>, <<"tests", "visual">>}
allowedFiles == {<<"tests", "testdata.ts">>}

\* file.path.startsWith(dir): dir ends with a slash, so the path has the
\* segments of dir and at least one more
StartsWith(path, dir) ==
    /\ Len(path) > Len(dir)
    /\ \A k \in 1..Len(dir) : path[k] = dir[k]

\* agent2 index.js:209-212
IsAllowedPath(path) ==
    \/ \E dir \in allowedDirs : StartsWith(path, dir)
    \/ path \in allowedFiles

\* variant: only the first returned file is checked
ValidateFiles_FirstOnly(files) == files = <<>> \/ IsAllowedPath(files[1])

\* agent2 index.js:208-215: every returned file is checked
ValidateFiles(files) == \A i \in DOMAIN files : IsAllowedPath(files[i])

\* generatePlaywrightScript (agent2 index.js:113-218) on the answer of the
\* generator: a failed request, a text that is not JSON, an object without
\* a files array and a file outside the permitted set all throw
generatePlaywrightScript(response) ==
    IF response.kind # "files" THEN [threw |-> TRUE, files |-> <<>>]
    ELSE IF ~ValidateFiles(response.files) THEN [threw |-> TRUE, files |-> <<>>]
    ELSE [threw |-> FALSE, files |-> response.files]

\* path.join(repoDir, file.path) (agent2 index.js:68): the segments are
\* normalised, a .. removes the segment before it; up counts the levels
\* that the result lies above repoDir
RECURSIVE JoinFrom(_, _, _)
JoinFrom(stack, up, rest) ==
    IF rest = <<>> THEN [up |-> up, path |-> stack]
    ELSE IF Head(rest) = ".."
         THEN IF stack = <<>> THEN JoinFrom(stack, up + 1, Tail(rest))
              ELSE JoinFrom(SubSeq(stack, 1, Len(stack) - 1), up, Tail(rest))
         ELSE JoinFrom(Append(stack, Head(rest)), up, Tail(rest))

PathJoin(path) == JoinFrom(<<>>, 0, path)

\* paths that the generator may return
PathPrefixes == {<<"tests", "pages">>, <<"tests">>, <<"src">>}
GeneratedPaths ==
    {p \o t : p \in PathPrefixes, t \in SeqsOf({"x.ts", ".."}, 1, MaxTailLen)}
        \cup allowedFiles

\* answers of the generator
GeneratorAnswers ==
    {[kind |-> "apiError", files |-> <<>>], [kind |-> "unparseable", files |-> <<>>],
     [kind |-> "noFiles", files |-> <<>>]}
        \cup {[kind |-> "files", files |-> fs] : fs \in SeqsOf(GeneratedPaths, 0, MaxFiles)}

Agent2Init ==
    /\ Fresh
    /\ pc = "a2.generate"
    /\ testSrc = NoSource
    /\ pageObj = Unreadable
    /\ resultsFile = Missing
    /\ wf = NoWorkflow
    /\ srv = NoServer
    /\ out = NoValue
    /\ arg \in GeneratorAnswers
    /\ a2 = [kind |-> "run", files |-> <<>>, cloned |-> FALSE, branch |-> FALSE,
             written |-> {}, pushed |-> FALSE, pr |-> FALSE, comment |-> "none",
             remote |-> [main |-> {}, feature |-> {}], tested |-> {}]

Agent2Frame ==
    UNCHANGED <<testSrc, pageObj, resultsFile, initialResults, retryResults,
                testResults, corrections, idx, attempt, calls, reported, patchLog,
                lastRun, arg, wf, srv, out>>

\* agent2 index.js:29-33: the script is generated first
Agent2Generate ==
    /\ pc = "a2.generate"
    /\ LET r == generatePlaywrightScript(arg)
       IN /\ a2' = [a2 EXCEPT !.files = r.files]
          /\ pc' = IF r.threw THEN "a2.catch" ELSE "a2.clone"
    /\ Agent2Frame

\* agent2 index.js:35-55: the working checkout is removed, recreated and
\* cloned into
Agent2Clone ==
    /\ pc = "a2.clone"
    /\ \/ a2' = [a2 EXCEPT !.cloned = TRUE] /\ pc' = "a2.branch"
       \/ UNCHANGED a2 /\ pc' = "a2.catch"
    /\ Agent2Frame

\* agent2 index.js:57-61: the feature branch
Agent2Branch ==
    /\ pc = "a2.branch"
    /\ a2' = [a2 EXCEPT !.branch = TRUE]
    /\ pc' = "a2.write"
    /\ Agent2Frame

\* agent2 index.js:63-77: the files are written one after the other; a
\* failing mkdir or writeFile ends the loop after n files
Agent2WriteFiles ==
    /\ pc = "a2.write"
    /\ \E n \in 0..Len(a2.files) :
         /\ a2' = [a2 EXCEPT !.written = {PathJoin(a2.files[i]) : i \in 1..n}]
         /\ pc' = IF n = Len(a2.files) THEN "a2.push" ELSE "a2.catch"
    /\ Agent2Frame

\* agent2 index.js:79-84: add, commit, push
Agent2Push ==
    /\ pc = "a2.push"
    /\ \/ a2' = [a2 EXCEPT !.pushed = TRUE, !.remote.feature = a2.written]
          /\ pc' = "a2.pr"
       \/ UNCHANGED a2 /\ pc' = "a2.catch"
    /\ Agent2Frame

\* agent2 index.js:86-89, createPullRequest (agent2 index.js:220-255)
Agent2PullRequest ==
    /\ pc = "a2.pr"
    /\ \/ a2' = [a2 EXCEPT !.pr = TRUE] /\ pc' = "a2.comment"
       \/ UNCHANGED a2 /\ pc' = "a2.catch"
    /\ Agent2Frame

\* agent2 index.js:91-97: the completion comment
Agent2Comment ==
    /\ pc = "a2.comment"
    /\ \/ a2' = [a2 EXCEPT !.comment = "completed"] /\ pc' = "a2.returned"
       \/ UNCHANGED a2 /\ pc' = "a2.catch"
    /\ Agent2Frame

\* agent2 index.js:99-110: the failure comment (its own failure is
\* swallowed), then the error is rethrown
Agent2Catch ==
    /\ pc = "a2.catch"
    /\ \/ a2' = [a2 EXCEPT !.comment = "failed"]
       \/ UNCHANGED a2
    /\ pc' = "a2.thrown"
    /\ Agent2Frame

\* the generated files among files that lie inside the working checkout
InCheckout(files) == {f \in files : f.up = 0}

\* server.js:108-111, agent3 index.js:49, prepareTestRepo (agent3
\* index.js:124-136): whatever became of triggerAgent2, triggerAgent3 removes
\* the working checkout and clones the default branch of the target
\* repository into it; a failing clone throws
HandoffPrepareTestRepo ==
    /\ pc \in {"a2.returned", "a2.thrown"}
    /\ \/ /\ a2' = [a2 EXCEPT !.written = (@ \ InCheckout(@)) \cup a2.remote.main]
          /\ pc' = "a3.initialRun"
       \/ /\ a2' = [a2 EXCEPT !.written = @ \ InCheckout(@)]
          /\ pc' = "a3.thrown"
    /\ Agent2Frame

\* agent3 index.js:53: the initial run of the tests finds the generated files
\* that the working checkout holds at that time
HandoffInitialRun ==
    /\ pc = "a3.initialRun"
    /\ a2' = [a2 EXCEPT !.tested = InCheckout(a2.written)]
    /\ pc' = "a3.ran"
    /\ Agent2Frame

Agent2Next ==
    \/ Agent2Generate
    \/ Agent2Clone
    \/ Agent2Branch
    \/ Agent2WriteFiles
    \/ Agent2Push
    \/ Agent2PullRequest
    \/ Agent2Comment
    \/ Agent2Catch
    \/ HandoffPrepareTestRepo
    \/ HandoffInitialRun

Agent2Spec == Agent2Init /\ [][Agent2Next]_vars

\* C27: when a returned path is outside the permitted set, the run of
\* triggerAgent2 ends in its catch straight after generation: nothing is
\* cloned, no branch is created, no file is written and nothing is pushed.
C27_ForbiddenPathStopsAgent2 ==
    (arg.kind = "files" /\ \E i \in DOMAIN arg.files : ~IsAllowedPath(arg.files[i]))
    => /\ pc \notin {"a2.clone", "a2.branch", "a2.write", "a2.push", "a2.pr",
                    "a2.comment", "a2.returned"}
       /\ a2.files = <<>>
       /\ ~a2.cloned /\ ~a2.branch /\ a2.written = {} /\ ~a2.pushed /\ ~a2.pr

C27_Witness ==
    /\ pc = "a2.thrown"
    /\ arg.kind = "files"
    /\ a2.written = {}
    /\ Len(arg.files) = 2
    /\ IsAllowedPath(arg.files[1])
    /\ arg.files[2] = <<"src", "x.ts">>
    /\ a2.comment = "failed"

----------------------------------------------------------------------------
(* runPlaywrightTests on a checkout that an earlier run has used           *)

\* C28: the result of a call of runPlaywrightTests holds only what the
\* runner execution of that call produced; a call whose runner produced no
\* results artifact returns the empty result.
C28_ResultOnlyFromThisRun ==
    pc = "runnerDone"
    => lastRun.result = IF arg.written.kind = "nothing" THEN EmptyResult
                        ELSE ParseResults(arg.written)

----------------------------------------------------------------------------
(* Extraction of the failing locator from an error message: ExtractSpec    *)

\* longest error message, in tokens
MaxErrorLen == 5

ErrorTokens == {"locator(", "selector(", "'", ")", "a"}
ErrorMessages == SeqsOf(ErrorTokens, 0, MaxErrorLen)

ExtractInit ==
    /\ Fresh
    /\ pc = "extract"
    /\ testSrc = NoSource
    /\ pageObj = Unreadable
    /\ resultsFile = Missing
    /\ wf = NoWorkflow
    /\ srv = NoServer
    /\ a2 = NoAgent2
    /\ out = NoValue
    /\ arg \in ErrorMessages

\* index.js:217-224: the locator that correctFailedSelectors takes from
\* failedTest.error
ExtractCall ==
    /\ pc = "extract"
    /\ out' = ExtractSelector(arg)
    /\ pc' = "extracted"
    /\ UNCHANGED <<testSrc, pageObj, resultsFile, initialResults, retryResults,
                   testResults, corrections, idx, attempt, calls, reported, patchLog,
                   lastRun, arg, wf, srv, a2>>

ExtractSpec == ExtractInit /\ [][ExtractCall]_vars

\* the first two alternatives of the pattern of index.js:218 alone: the
\* quoted string of the leftmost locator('...') or selector('...')
RECURSIVE InsideCallFrom(_, _)
InsideCallFrom(s, i) ==
    IF i > Len(s) THEN NoValue
    ELSE IF CallAt(s, i, "locator(") # 0
         THEN Slice(s, i + 2, CallAt(s, i, "locator(") - 1)
    ELSE IF CallAt(s, i, "selector(") # 0
         THEN Slice(s, i + 2, CallAt(s, i, "selector(") - 1)
    ELSE InsideCallFrom(s, i + 1)

\* C29: the extracted locator is the quoted string of the first
\* locator('...') or selector('...') of the error message, and NotFound
\* when the message holds no such pattern; a quoted string outside such a
\* pattern is never returned.
C29_LocatorOnlyFromCallPattern ==
    pc = "extracted" => out = InsideCallFrom(arg, 1)

----------------------------------------------------------------------------
(* Publishing of the corrections by triggerAgent3, checked under Spec      *)

\* triggerAgent3 is past the decision of index.js:88
PastPublishDecision == pc \in {"push", "pr", "report", "returned", "catch", "thrown"}

----------------------------------------------------------------------------
(* The aggregate result of triggerAgent3, checked under Spec               *)

\* C31: the result that triggerAgent3 returns, and every results report
\* that reaches the issue tracker, has totalTests = passed + failed.
C31_ReportedTotalIsSum ==
    /\ pc = "returned" => testResults.totalTests = testResults.passed + testResults.failed
    /\ \A i \in ResultReports :
          reported[i].totalTests = reported[i].passed + reported[i].failed

\* C32: every final results report asks the issue tracker for a transition,
\* to DONE when the reported failed count is 0 and to IN PROGRESS otherwise,
\* and the request reaches transitionIssue.
C32_FinalReportTransitions ==
    \A i \in ResultReports :
        reported[i].transition = IF reported[i].failed = 0 THEN "DONE" ELSE "IN PROGRESS"

----------------------------------------------------------------------------
(* The working checkout between Materialize and Execute, under Agent2Spec  *)

\* C33: when triggerAgent2 has written and pushed the generated files, the
\* initial run of the tests in triggerAgent3 finds these files in the
\* working checkout.
C33_GeneratedFilesReachExecute ==
    (pc = "a3.ran" /\ a2.pushed)
    => InCheckout({PathJoin(a2.files[i]) : i \in DOMAIN a2.files}) \subseteq a2.tested

----------------------------------------------------------------------------
(* One iteration of correctFailedSelectors as a function of the failed     *)
(* test, the checkout and the advisory answer: AnchorSpec                  *)

\* error messages of the failed test
AnchorErrors ==
    {<<"locator(", "'", "a", "'", ")">>, <<"selector(", "'", "b", "'", ")">>,
     <<"'", "a", "'">>}

\* advisory answers: the original locator of the answer is free
AnchorAdvice ==
    {[kind |-> "text", text |-> <<Json(Suggestion(o, n, c))>>] :
        o \in {<<"a">>, <<"b">>}, n \in {<<"a">>, <<"b">>}, c \in {"high", "low"}}

AnchorInit ==
    /\ Fresh
    /\ pc = "anchor"
    /\ testSrc \in RunSources
    /\ pageObj \in RunPages
    /\ resultsFile = Missing
    /\ wf = NoWorkflow
    /\ NothingElse
    /\ arg \in [failedTest : {[name |-> "t-locator", file |-> SpecFile, error |-> e] :
                                  e \in AnchorErrors},
                 ai : AnchorAdvice]

\* index.js:213-304: one iteration of the loop
AnchorCall ==
    /\ pc = "anchor"
    /\ \E fetched \in BOOLEAN, writeOk \in BOOLEAN :
         LET r == CorrectionAttempt(arg.failedTest, testSrc, pageObj, fetched,
                                    arg.ai, writeOk)
         IN /\ pageObj' = r.page
            /\ corrections' = r.correction
            /\ patchLog' = IF r.patchCalled
                           THEN <<[before |-> r.before, suggestion |-> r.suggestion,
                                   returned |-> r.updated, after |-> r.page,
                                   sites |-> r.sites, wrote |-> r.wrote]>>
                           ELSE <<>>
    /\ pc' = "anchored"
    /\ UNCHANGED <<testSrc, resultsFile, initialResults, retryResults, testResults,
                   idx, attempt, calls, reported, lastRun, arg, wf, srv, a2, out>>

AnchorSpec == AnchorInit /\ [][AnchorCall]_vars

\* C34: the original locator that a patch searched for and replaced, and
\* the original locator of every recorded correction, is the locator
\* extracted from the error message of the failed test.
C34_PatchAnchoredOnExtracted ==
    pc = "anchored" =>
        /\ \A i \in DOMAIN patchLog :
              patchLog[i].returned =>
                  patchLog[i].suggestion.originalSelector
                      = ExtractSelector(arg.failedTest.error)
        /\ \A i \in DOMAIN corrections :
              corrections[i].originalSelector = ExtractSelector(arg.failedTest.error)

----------------------------------------------------------------------------
(* Failures of the issue tracker in triggerAgent1, under WorkflowSpec      *)

\* a progress comment of triggerAgent1 was refused by the issue tracker and
\* nothing else went wrong before it: the issue has its fields, and either
\* the comment that the agent started is missing, or the scenarios were
\* generated and saved and the comment that announces them is missing
SinkFailedAlone ==
    /\ pc = "settled"
    /\ wf.issue.hasFields
    /\ \/ ~Happened("a1.comment.started")
       \/ Happened("a1.saved") /\ ~Happened("a1.comment.completed")

\* C35: a run in which only a progress comment of triggerAgent1 failed is
\* not aborted; triggerAgent2 and triggerAgent3 are still called.
C35_SinkFailureNotFatal ==
    SinkFailedAlone =>
        /\ ~Happened("fatal")
        /\ Happened("a2.call") \/ Happened("a1.a2.call")
        /\ Happened("a3.call")

----------------------------------------------------------------------------
(* Failures while publishing the corrections, checked under Spec           *)

\* the run ended with an error thrown by commitCorrections or by
\* pushCorrections: publishing began and createCorrectionPR was not reached
PublishingThrew == pc = "thrown" /\ calls.commit = 1 /\ calls.pr = 0

\* C36: a run whose publishing step failed still reports the final results
\* to the issue tracker.
C36_PublishFailureStillReports ==
    /\ PublishingThrew => ResultReports # {}
    /\ (pc = "report" /\ calls.commit = 1) => calls.pr = 1

----------------------------------------------------------------------------
(* Termination of triggerAgent3: LiveSpec                                  *)

\* every awaited call of triggerAgent3 (clone, runner, page fetch, advisory
\* call, git, issue tracker) returns or fails in finite time, so the
\* function always takes its next step
\* the checkouts of the runs whose termination is checked: the test source
\* is complete or cannot be read, the page object holds the failing locator
LiveCheckout(src, page) ==
    /\ src \in {[readable |-> TRUE, importsPage |-> TRUE, gotoUrl |-> TRUE], NoSource}
    /\ page \in {<<"'", "a", "'">>, Unreadable}

LiveNext == Next /\ LiveCheckout(testSrc', pageObj')

LiveSpec == Init /\ [][LiveNext]_vars /\ WF_vars(LiveNext)

\* the failure comments that reached the issue tracker
FailureReports == {i \in DOMAIN reported : reported[i].type = "failure"}

----------------------------------------------------------------------------
(* Where triggerAgent2 writes, checked under Agent2Spec                    *)

\* C38: every file that triggerAgent2 has written lies inside the working
\* checkout and, after path.join has resolved it, under one of the
\* permitted directories or at tests/testdata.ts.
C38_WritesStayInPermittedDirs ==
    \A f \in a2.written : f.up = 0 /\ IsAllowedPath(f.path)

----------------------------------------------------------------------------
(* Runs started by the manual trigger, checked under WorkflowSpec          *)

\* C39: a run for an issue object built as {key, summary}, with the issue
\* tracker up, gets past the reading of the issue in triggerAgent1 (the
\* comment that the agent started is posted, so generation is attempted) and
\* calls triggerAgent3.
C39_ManualTriggerReachesExecute ==
    (pc = "settled" /\ ~wf.issue.hasFields /\ wf.sinkUp)
    => (Happened("a1.comment.started") /\ Happened("a3.call"))

----------------------------------------------------------------------------
(* The correction pull request, checked under Spec                         *)

\* C40: createCorrectionPR is called only after the fix branch was pushed:
\* there are never more pull-request requests than successful pushes.
C40_PullRequestOnlyAfterPush ==
    calls.pr <= calls.pushed

====
